---- MODULE Spec2Model ----
(***************************************************************************)
(* Model of the hints kitten (kittens/hints/main.py): the hint codec, the  *)
(* overlay renderer, the Hints handler driven by the terminal loop, and    *)
(* the surrounding run / run_loop functions.                               *)
(*                                                                         *)
(* Strings are sequences of one-character tokens. "NUL" is the filler      *)
(* character '\0', "LF" is '\n' and "CR" is '\r'; "DQUOTE", "SQUOTE" and   *)
(* "BACKTICK" are the two quote characters and the backtick. Offsets into  *)
(* strings are kept 0-based and half-open, as in the source.               *)
(***************************************************************************)
EXTENDS Integers, Sequences, FiniteSets, TLC

VARIABLES
    pc,                   \* position in run(): "start", "loop", "quit", "done"
    args,                 \* the parsed command line options
    text,                 \* the normalized screen text
    all_marks,            \* tuple of Mark records, in document order
    index_map,            \* final index -> Mark
    current_input,        \* Hints.current_input
    current_text,         \* Hints.current_text (the render cache)
    chosen,               \* Hints.chosen
    ignore_mark_indices,  \* Hints.ignore_mark_indices
    return_code,          \* Loop.return_code
    screen,               \* what the last draw_screen wrote
    event,                \* the event the loop delivered last
    outcome,              \* how run() ended: "none", "result", "return", "exit"
    result_match,         \* the 'match' entry of the returned result
    exit_status,          \* status the process exits with
    message,              \* the prompt shown by input(), if any
    codec,                \* state of the codec exerciser (CodecSpec)
    unit                  \* inputs and output of a function applied on its own

vars == <<pc, args, text, all_marks, index_map, current_input, current_text,
          chosen, ignore_mark_indices, return_code, screen, event, outcome,
          result_match, exit_status, message, codec, unit>>

hintsVars == <<pc, args, text, all_marks, index_map, current_input,
               current_text, chosen, ignore_mark_indices, return_code, screen,
               event, outcome, result_match, exit_status, message>>

----------------------------------------------------------------------------
(* Bounds *)

MaxMarks == 3

MaxInput == 3

MaxChosen == 3

MaxText == 2

MaxNum == 40

MaxFrags == 3

MaxExtLen == 4

MaxRMarks == 3

MaxMarkLen == 4

----------------------------------------------------------------------------
(* Python helpers *)

None == <<"<None>">>

Range(s) == {s[i] : i \in 1..Len(s)}

Min(a, b) == IF a < b THEN a ELSE b

Max(a, b) == IF a > b THEN a ELSE b

\* s[a:b] for 0 <= a
PySlice(s, a, b) == SubSeq(s, a + 1, Min(b, Len(s)))

\* s[a:] for 0 <= a
PyFrom(s, a) == SubSeq(s, a + 1, Len(s))

StartsWith(s, p) == Len(p) <= Len(s) /\ SubSeq(s, 1, Len(p)) = p

RECURSIVE Reversed(_)
Reversed(s) == IF s = <<>> THEN <<>> ELSE Reversed(Tail(s)) \o <<Head(s)>>

RECURSIVE Repeat(_, _)
Repeat(s, n) == IF n <= 0 THEN <<>> ELSE s \o Repeat(s, n - 1)

\* str.replace(c, r) for a single character c
RECURSIVE Replace(_, _, _)
Replace(s, c, r) ==
    IF s = <<>> THEN <<>>
    ELSE (IF Head(s) = c THEN r ELSE <<Head(s)>>) \o Replace(Tail(s), c, r)

Whitespace == {" ", "LF", "CR", "TAB"}

RECURSIVE RStrip(_)
RStrip(s) ==
    IF s # <<>> /\ s[Len(s)] \in Whitespace
    THEN RStrip(SubSeq(s, 1, Len(s) - 1))
    ELSE s

----------------------------------------------------------------------------
(* Hint codec *)

RECURSIVE EncodeLoop(_, _, _)
EncodeLoop(num, res, alphabet) ==
    IF ~(res = <<>> \/ num > 0) THEN res
    ELSE LET d == Len(alphabet)
             i == num % d
         IN EncodeLoop(num \div d, <<alphabet[i + 1]>> \o res, alphabet)

RECURSIVE EncodeLoopNoZero(_, _, _)
EncodeLoopNoZero(num, res, alphabet) ==
    IF ~(num > 0) THEN res
    ELSE LET d == Len(alphabet)
             i == num % d
         IN EncodeLoopNoZero(num \div d, <<alphabet[i + 1]>> \o res, alphabet)

encode_hint_empty_zero(num, alphabet) == EncodeLoopNoZero(num, <<>>, alphabet)

encode_hint(num, alphabet) == EncodeLoop(num, <<>>, alphabet)

\* index_map = {c: i for i, c in enumerate(alphabet)}; -1 stands for KeyError
CharIndex(alphabet, c) ==
    IF c \in Range(alphabet)
    THEN CHOOSE i \in 0..(Len(alphabet) - 1) :
            /\ alphabet[i + 1] = c
            /\ \A j \in 0..(Len(alphabet) - 1) : alphabet[j + 1] = c => j <= i
    ELSE -1

RECURSIVE DecodeLoop(_, _, _)
DecodeLoop(x, i, alphabet) ==
    IF x = <<>> THEN i
    ELSE IF CharIndex(alphabet, Head(x)) = -1 THEN -1
    ELSE DecodeLoop(Tail(x), i * Len(alphabet) + CharIndex(alphabet, Head(x)),
                    alphabet)

RECURSIVE DecodeLoopNoShift(_, _, _)
DecodeLoopNoShift(x, i, alphabet) ==
    IF x = <<>> THEN i
    ELSE IF CharIndex(alphabet, Head(x)) = -1 THEN -1
    ELSE DecodeLoopNoShift(Tail(x), i + CharIndex(alphabet, Head(x)), alphabet)

decode_hint_no_shift(x, alphabet) == DecodeLoopNoShift(x, 0, alphabet)

\* returns the index, or -1 when index_map[char] raises KeyError
decode_hint(x, alphabet) == DecodeLoop(x, 0, alphabet)

----------------------------------------------------------------------------
(* Overlay renderer *)

faint(t) == <<"<faint>">> \o t \o <<"</faint>">>

styled_hint(t) == <<"<hint>">> \o t \o <<"</hint>">>

styled_text(t) == <<"<text>">> \o t \o <<"</text>">>

highlight_mark_full_label(m, mtext, cur_input, alphabet) ==
    LET hint0 == encode_hint(m.index, alphabet)
    IN IF cur_input # <<>> /\ ~StartsWith(hint0, cur_input)
       THEN faint(mtext)
       ELSE styled_hint(hint0) \o styled_text(PyFrom(mtext, Len(hint0)))

highlight_mark(m, mtext, cur_input, alphabet) ==
    LET hint0 == encode_hint(m.index, alphabet)
    IN IF cur_input # <<>> /\ ~StartsWith(hint0, cur_input)
       THEN faint(mtext)
       ELSE LET rest == PyFrom(hint0, Len(cur_input))
                hint == IF rest = <<>> THEN <<" ">> ELSE rest
            IN styled_hint(hint) \o styled_text(PyFrom(mtext, Len(hint)))

RECURSIVE RenderLoop(_, _, _, _, _)
RenderLoop(t, cur_input, marks, ignored, alphabet) ==
    IF marks = <<>> THEN t
    ELSE LET mark == Head(marks)
             t2 == IF mark.index \in ignored THEN t
                   ELSE PySlice(t, 0, mark.start)
                        \o highlight_mark(mark, PySlice(t, mark.start, mark.end),
                                          cur_input, alphabet)
                        \o PyFrom(t, mark.end)
         IN RenderLoop(t2, cur_input, Tail(marks), ignored, alphabet)

render_forward(t, cur_input, marks, ignored, alphabet) ==
    LET spliced == RenderLoop(t, cur_input, marks, ignored, alphabet)
        stripped == Replace(spliced, "NUL", <<>>)
    IN RStrip(Replace(stripped, "LF", <<"CR", "LF">>))

render(t, cur_input, marks, ignored, alphabet) ==
    LET spliced == RenderLoop(t, cur_input, Reversed(marks), ignored, alphabet)
        stripped == Replace(spliced, "NUL", <<>>)
    IN RStrip(Replace(stripped, "LF", <<"CR", "LF">>))

----------------------------------------------------------------------------
(* Match extractor and span refiners *)

\* t[i] with Python's negative indexing
PyAt(t, i) == IF i < 0 THEN t[Len(t) + i + 1] ELSE t[i + 1]

\* the loop that trims trailing filler in regex_finditer
RECURSIVE TrimEndNoFloor(_, _, _)
TrimEndNoFloor(t, s, e) ==
    IF e > s /\ PyAt(t, e - 1) = "NUL" THEN TrimEndNoFloor(t, s, e - 1) ELSE e

RECURSIVE TrimEnd(_, _, _)
TrimEnd(t, s, e) ==
    IF e > s + 1 /\ PyAt(t, e - 1) = "NUL" THEN TrimEnd(t, s, e - 1) ELSE e

RECURSIVE regex_finditer_no_floor(_, _, _)
regex_finditer_no_floor(spans, minimum_match_length, t) ==
    IF spans = <<>> THEN <<>>
    ELSE LET s == Head(spans)[1]
             e == TrimEndNoFloor(t, s, Head(spans)[2])
             rest == regex_finditer_no_floor(Tail(spans), minimum_match_length, t)
         IN IF e - s >= minimum_match_length THEN <<<<s, e>>>> \o rest
            ELSE rest

\* spans is what pat.finditer(text) matches, in scan order; the result is
\* the sequence of (s, e) pairs that regex_finditer yields
RECURSIVE regex_finditer(_, _, _)
regex_finditer(spans, minimum_match_length, t) ==
    IF spans = <<>> THEN <<>>
    ELSE LET s == Head(spans)[1]
             e == TrimEnd(t, s, Head(spans)[2])
             rest == regex_finditer(Tail(spans), minimum_match_length, t)
         IN IF e - s >= minimum_match_length THEN <<<<s, e>>>> \o rest
            ELSE rest

closing_bracket_map ==
    [c \in {"(", "[", "{", "<", "*", "DQUOTE", "SQUOTE"} |->
        CASE c = "(" -> ")"
          [] c = "[" -> "]"
          [] c = "{" -> "}"
          [] c = "<" -> ">"
          [] OTHER -> c]

opening_brackets == DOMAIN closing_bracket_map

\* str.rfind(c): the last position of c, or -1
RFind(t, c) ==
    IF c \in Range(t)
    THEN CHOOSE i \in 0..(Len(t) - 1) :
            /\ t[i + 1] = c
            /\ \A j \in 0..(Len(t) - 1) : t[j + 1] = c => j <= i
    ELSE -1

\* str.find(c, from): the first position of c at or after from, or -1
Find(t, c, from) ==
    IF \E i \in from..(Len(t) - 1) : t[i + 1] = c
    THEN CHOOSE i \in from..(Len(t) - 1) :
            /\ t[i + 1] = c
            /\ \A j \in from..(Len(t) - 1) : t[j + 1] = c => i <= j
    ELSE -1

\* while text[e - 1] in '.,?!' and e > 1: e -= 1
RECURSIVE StripPunctuation(_, _)
StripPunctuation(t, e) ==
    IF PyAt(t, e - 1) \in {".", ",", "?", "!"} /\ e > 1
    THEN StripPunctuation(t, e - 1)
    ELSE e

url(t, s, e) ==
    LET e1 == IF s > 4 /\ PySlice(t, s - 5, s) = <<"l", "i", "n", "k", ":">>
              THEN LET u == PySlice(t, s, e)
                       idx == RFind(u, "[")
                   IN IF idx > -1 THEN e - (Len(u) - idx) ELSE e
              ELSE e
        e2 == StripPunctuation(t, e1)
        e3 == IF s > 0 /\ e2 <= Len(t) /\ PyAt(t, s - 1) \in opening_brackets
              THEN LET q == closing_bracket_map[PyAt(t, s - 1)]
                       idx == Find(t, q, s)
                   IN IF idx > s THEN idx ELSE e2
              ELSE e2
        e4 == IF e3 > 3 /\ PySlice(t, e3 - 2, e3) = <<"BACKTICK", "_">>
              THEN e3 - 2 ELSE e3
    IN <<s, e4>>

brackets(t, s, e) ==
    IF s < e /\ e <= Len(t)
    THEN LET before == PyAt(t, s)
         IN IF before \in {"(", "{", "[", "<"}
               /\ PyAt(t, e - 1) = closing_bracket_map[before]
            THEN <<s + 1, e - 1>>
            ELSE <<s, e>>
    ELSE <<s, e>>

quotes(t, s, e) ==
    IF s < e /\ e <= Len(t)
    THEN LET before == PyAt(t, s)
         IN IF before \in {"SQUOTE", "DQUOTE"} /\ PyAt(t, e - 1) = before
            THEN <<s + 1, e - 1>>
            ELSE <<s, e>>
    ELSE <<s, e>>

\* the loop over post_processors in mark(), for the chains functions_for builds
RECURSIVE ApplyChain(_, _, _, _)
ApplyChain(chain, t, s, e) ==
    IF chain = <<>> THEN <<s, e>>
    ELSE LET r == CASE Head(chain) = "url" -> url(t, s, e)
                    [] Head(chain) = "brackets" -> brackets(t, s, e)
                    [] Head(chain) = "quotes" -> quotes(t, s, e)
         IN ApplyChain(Tail(chain), t, r[1], r[2])

----------------------------------------------------------------------------
(* Input to run(): normalized text and the marks the extractor yields *)

Cols == 4

RowChars == <<"p", "q", "r", "s", "t", "u">>

\* one screen row: a three-letter word padded with filler to Cols
Row(j) == <<"f", "o", RowChars[j]>> \o Repeat(<<"NUL">>, Cols - 3)

\* parse_input's output for a screen of n rows
RECURSIVE ScreenText(_)
ScreenText(n) ==
    IF n <= 0 THEN <<>>
    ELSE IF n = 1 THEN Row(1)
    ELSE ScreenText(n - 1) \o <<"LF">> \o Row(n)

MarkText(t, s, e) == Replace(Replace(PySlice(t, s, e), "LF", <<>>), "NUL", <<>>)

\* tuple(mark(...)): one match per row, extractor indices 0..n-1
Marks(t, n) ==
    [j \in 1..n |->
        [index |-> j - 1, start |-> (j - 1) * (Cols + 1),
         end |-> (j - 1) * (Cols + 1) + 3,
         text |-> MarkText(t, (j - 1) * (Cols + 1), (j - 1) * (Cols + 1) + 3),
         groupdict |-> <<>>]]

Alphabets == {<<"a", "b">>}

InputChars == {"a", "b", "x"}

ArgsSet ==
    [multiple : BOOLEAN, ascending : BOOLEAN, hints_offset : {-1, 1},
     alphabet : Alphabets, add_trailing_space : {"auto", "never"},
     nmatches : 0..MaxMarks, input_ok : BOOLEAN, type : {"line"}]

NoEvent == [kind |-> "none", text |-> <<>>]

KeyEvent(k) == [kind |-> k, text |-> <<>>]

TextEvent(t) == [kind |-> "text", text |-> t]

----------------------------------------------------------------------------
(* Hints handler *)

get_match_suffix(a) ==
    IF a.add_trailing_space = "always" THEN <<" ">>
    ELSE IF a.add_trailing_space = "never" THEN <<>>
    ELSE IF a.multiple THEN <<" ">> ELSE <<>>

text_matches ==
    [i \in 1..Len(chosen) |-> chosen[i].text \o get_match_suffix(args)]

draw_screen_no_ignore(ct, cur_input, ignored) ==
    IF ct = None
    THEN render(text, cur_input, all_marks, {}, args.alphabet)
    ELSE ct

\* draw_screen: fills the cache when it is empty and writes the cache
draw_screen(ct, cur_input, ignored) ==
    IF ct = None
    THEN render(text, cur_input, all_marks, ignored, args.alphabet)
    ELSE ct

AcceptedAll(t, alphabet) == t

\* the characters of an on_text event that are appended to current_input
Accepted(t, alphabet) ==
    LET InAlphabet(c) == c \in Range(alphabet)
    IN SelectSeq(t, InAlphabet)

\* indices of the marks collected in on_text's list 'matches'
PrefixMatches(cur_input) ==
    {idx \in DOMAIN index_map :
        StartsWith(encode_hint(idx, args.alphabet), cur_input)}

TextQuits == ~args.multiple

on_text(t) ==
    /\ pc = "loop"
    /\ LET typed == Accepted(t, args.alphabet)
           inp == current_input \o typed
           changed == typed # <<>>
           matches == PrefixMatches(inp)
           one == changed /\ Cardinality(matches) = 1
           m == index_map[CHOOSE idx \in matches : TRUE]
       IN /\ Len(inp) <= MaxInput
          /\ one => Len(chosen) < MaxChosen
          /\ event' = TextEvent(t)
          /\ IF ~changed
             THEN UNCHANGED <<pc, current_input, current_text, chosen,
                              ignore_mark_indices, return_code, screen>>
             ELSE IF one /\ TextQuits
             THEN /\ chosen' = Append(chosen, m)
                  /\ current_input' = inp
                  /\ return_code' = 0
                  /\ pc' = "quit"
                  /\ UNCHANGED <<current_text, ignore_mark_indices, screen>>
             ELSE IF one
             THEN /\ chosen' = Append(chosen, m)
                  /\ ignore_mark_indices' = ignore_mark_indices \cup {m.index}
                  /\ current_input' = <<>>
                  /\ current_text' = draw_screen(None, <<>>, ignore_mark_indices')
                  /\ screen' = current_text'
                  /\ UNCHANGED <<pc, return_code>>
             ELSE /\ current_input' = inp
                  /\ current_text' = draw_screen(None, inp, ignore_mark_indices)
                  /\ screen' = current_text'
                  /\ UNCHANGED <<pc, chosen, ignore_mark_indices, return_code>>
    /\ UNCHANGED <<args, text, all_marks, index_map, outcome, result_match,
                   exit_status, message, codec, unit>>

on_key_backspace ==
    /\ pc = "loop"
    /\ event' = KeyEvent("backspace")
    /\ current_input' = SubSeq(current_input, 1, Len(current_input) - 1)
    /\ current_text' = draw_screen(None, current_input', ignore_mark_indices)
    /\ screen' = current_text'
    /\ UNCHANGED <<pc, args, text, all_marks, index_map, chosen,
                   ignore_mark_indices, return_code, outcome, result_match,
                   exit_status, message, codec, unit>>

EnterFailedKeepsInput ==
    /\ current_text' = draw_screen(None, current_input, ignore_mark_indices)
    /\ screen' = current_text'
    /\ UNCHANGED <<pc, current_input, chosen, ignore_mark_indices, return_code>>

\* the except clause of the Enter branch
EnterFailed ==
    /\ current_input' = <<>>
    /\ current_text' = draw_screen(None, <<>>, ignore_mark_indices)
    /\ screen' = current_text'
    /\ UNCHANGED <<pc, chosen, ignore_mark_indices, return_code>>

EnterQuitsAlways == TRUE

EnterQuits == ~args.multiple

on_key_enter ==
    /\ pc = "loop"
    /\ event' = KeyEvent("enter")
    /\ IF current_input = <<>>
       THEN UNCHANGED <<pc, current_input, current_text, chosen,
                        ignore_mark_indices, return_code, screen>>
       ELSE LET idx == decode_hint(current_input, args.alphabet)
            IN IF idx = -1 \/ idx \notin DOMAIN index_map
               THEN EnterFailed
               ELSE /\ Len(chosen) < MaxChosen
                    /\ chosen' = Append(chosen, index_map[idx])
                    /\ ignore_mark_indices' = ignore_mark_indices \cup {idx}
                    /\ IF EnterQuits
                       THEN /\ return_code' = 0
                            /\ pc' = "quit"
                            /\ UNCHANGED <<current_input, current_text, screen>>
                       ELSE /\ current_input' = <<>>
                            /\ current_text' =
                                 draw_screen(None, <<>>, ignore_mark_indices')
                            /\ screen' = current_text'
                            /\ UNCHANGED <<pc, return_code>>
    /\ UNCHANGED <<args, text, all_marks, index_map, outcome, result_match,
                   exit_status, message, codec, unit>>

EscapeCodeInverted == IF args.multiple THEN 1 ELSE 0

EscapeCode == IF args.multiple THEN 0 ELSE 1

on_key_escape ==
    /\ pc = "loop"
    /\ event' = KeyEvent("escape")
    /\ return_code' = EscapeCode
    /\ pc' = "quit"
    /\ UNCHANGED <<args, text, all_marks, index_map, current_input,
                   current_text, chosen, ignore_mark_indices, screen, outcome,
                   result_match, exit_status, message, codec, unit>>

on_interrupt ==
    /\ pc = "loop"
    /\ event' = KeyEvent("interrupt")
    /\ return_code' = 1
    /\ pc' = "quit"
    /\ UNCHANGED <<args, text, all_marks, index_map, current_input,
                   current_text, chosen, ignore_mark_indices, screen, outcome,
                   result_match, exit_status, message, codec, unit>>

on_eot ==
    /\ pc = "loop"
    /\ event' = KeyEvent("eot")
    /\ return_code' = 1
    /\ pc' = "quit"
    /\ UNCHANGED <<args, text, all_marks, index_map, current_input,
                   current_text, chosen, ignore_mark_indices, screen, outcome,
                   result_match, exit_status, message, codec, unit>>

on_resize ==
    /\ pc = "loop"
    /\ event' = KeyEvent("resize")
    /\ current_text' = draw_screen(current_text, current_input,
                                   ignore_mark_indices)
    /\ screen' = current_text'
    /\ UNCHANGED <<pc, args, text, all_marks, index_map, current_input, chosen,
                   ignore_mark_indices, return_code, outcome, result_match,
                   exit_status, message, codec, unit>>

----------------------------------------------------------------------------
(* run and run_loop *)

ExitStatusFlipped(rc) == 1 - rc

\* raise SystemExit(loop.return_code)
ExitStatus(rc) == rc

HasResultIgnoresCode == chosen # <<>>

HasResult == chosen # <<>> /\ return_code = 0

\* run_loop after loop.loop(handler) has returned
run_loop_return ==
    /\ pc = "quit"
    /\ pc' = "done"
    /\ IF HasResult
       THEN /\ outcome' = "result"
            /\ result_match' = text_matches
            /\ exit_status' = 0
       ELSE /\ outcome' = "exit"
            /\ exit_status' = ExitStatus(return_code)
            /\ UNCHANGED result_match
    /\ UNCHANGED <<args, text, all_marks, index_map, current_input,
                   current_text, chosen, ignore_mark_indices, return_code,
                   screen, event, message, codec, unit>>

FinalIndexNoOffset(m, largest_index, offset, ascending) ==
    IF ascending THEN m.index + offset
    ELSE largest_index - m.index

FinalIndex(m, largest_index, offset, ascending) ==
    IF ascending THEN m.index + offset
    ELSE largest_index - m.index + offset

NoMarksNever(marks) == FALSE

NoMarks(marks) == marks = <<>>

\* run up to the point where the loop waits for its first event
run ==
    /\ pc = "start"
    /\ IF ~args.input_ok
       THEN \* an exception inside the try block
            /\ message' = "Press Enter to quit."
            /\ outcome' = "exit"
            /\ exit_status' = 1
            /\ pc' = "done"
            /\ UNCHANGED <<text, all_marks, index_map, current_text, screen>>
       ELSE LET t == ScreenText(args.nmatches)
                marks == Marks(t, args.nmatches)
            IN IF NoMarks(marks)
               THEN /\ text' = t
                    /\ all_marks' = marks
                    /\ message' = "No matches found, press Enter to quit."
                    /\ outcome' = "return"
                    /\ exit_status' = 0
                    /\ pc' = "done"
                    /\ UNCHANGED <<index_map, current_text, screen>>
               ELSE IF marks = <<>>
               THEN \* all_marks[-1] raises IndexError inside the try block
                    /\ text' = t
                    /\ all_marks' = marks
                    /\ message' = "Press Enter to quit."
                    /\ outcome' = "exit"
                    /\ exit_status' = 1
                    /\ pc' = "done"
                    /\ UNCHANGED <<index_map, current_text, screen>>
               ELSE LET largest_index == marks[Len(marks)].index
                        offset == Max(0, args.hints_offset)
                        renumbered ==
                            [j \in 1..Len(marks) |->
                                [marks[j] EXCEPT !.index =
                                    FinalIndex(marks[j], largest_index, offset,
                                               args.ascending)]]
                    IN /\ text' = t
                       /\ all_marks' = renumbered
                       /\ index_map' =
                            [idx \in {renumbered[j].index : j \in 1..Len(marks)}
                                |-> LET j == CHOOSE k \in 1..Len(marks) :
                                                /\ renumbered[k].index = idx
                                                /\ \A l \in 1..Len(marks) :
                                                     renumbered[l].index = idx
                                                        => l <= k
                                    IN renumbered[j]]
                       /\ current_text' =
                            render(t, <<>>, renumbered, {}, args.alphabet)
                       /\ screen' = current_text'
                       /\ pc' = "loop"
                       /\ UNCHANGED <<outcome, exit_status, message>>
    /\ UNCHANGED <<args, current_input, chosen, ignore_mark_indices,
                   return_code, event, result_match, codec, unit>>

----------------------------------------------------------------------------
(* Specification of a run of the kitten *)

UnitIdle == [pc |-> "idle"]

CodecIdle ==
    [pc |-> "idle", num |-> 0, alphabet |-> <<>>, hint |-> <<>>,
     decoded |-> -1]

Init ==
    /\ pc = "start"
    /\ args \in ArgsSet
    /\ text = <<>>
    /\ all_marks = <<>>
    /\ index_map = <<>>
    /\ current_input = <<>>
    /\ current_text = None
    /\ chosen = <<>>
    /\ ignore_mark_indices = {}
    /\ return_code = 0
    /\ screen = <<>>
    /\ event = NoEvent
    /\ outcome = "none"
    /\ result_match = <<>>
    /\ exit_status = -1
    /\ message = ""
    /\ codec = CodecIdle
    /\ unit = UnitIdle

TextInputs ==
    UNION {[1..n -> InputChars] : n \in 1..MaxText}

Next ==
    \/ run
    \/ \E t \in TextInputs : on_text(t)
    \/ on_key_backspace
    \/ on_key_enter
    \/ on_key_escape
    \/ on_interrupt
    \/ on_eot
    \/ on_resize
    \/ run_loop_return

Spec == Init /\ [][Next]_vars

----------------------------------------------------------------------------
(* Specification exercising the hint codec on bounded inputs *)

CodecAlphabets ==
    {<<"a", "b">>, <<"b", "a">>, <<"a", "b", "c">>,
     <<"0", "1", "2", "3", "4", "5", "6", "7", "8", "9">>}

CodecInit ==
    /\ codec \in [pc : {"start"}, num : 0..MaxNum, alphabet : CodecAlphabets,
                  hint : {<<>>}, decoded : {-1}]
    /\ unit = UnitIdle
    /\ pc = "off"
    /\ args = [multiple |-> FALSE, ascending |-> FALSE, hints_offset |-> 1,
               alphabet |-> <<"a", "b">>, add_trailing_space |-> "auto",
               nmatches |-> 0, input_ok |-> TRUE, type |-> "line"]
    /\ text = <<>>
    /\ all_marks = <<>>
    /\ index_map = <<>>
    /\ current_input = <<>>
    /\ current_text = None
    /\ chosen = <<>>
    /\ ignore_mark_indices = {}
    /\ return_code = 0
    /\ screen = <<>>
    /\ event = NoEvent
    /\ outcome = "none"
    /\ result_match = <<>>
    /\ exit_status = -1
    /\ message = ""

Encode ==
    /\ codec.pc = "start"
    /\ codec' = [codec EXCEPT !.pc = "encoded",
                              !.hint = encode_hint(codec.num, codec.alphabet)]
    /\ UNCHANGED <<hintsVars, unit>>

Decode ==
    /\ codec.pc = "encoded"
    /\ codec' = [codec EXCEPT !.pc = "decoded",
                              !.decoded = decode_hint(codec.hint, codec.alphabet)]
    /\ UNCHANGED <<hintsVars, unit>>

CodecNext == Encode \/ Decode

CodecSpec == CodecInit /\ [][CodecNext]_vars

----------------------------------------------------------------------------
(* Specifications applying one function of the kitten to bounded inputs *)

\* the Hints variables while no run of the kitten is modelled
HintsOff ==
    /\ pc = "off"
    /\ args = [multiple |-> FALSE, ascending |-> FALSE, hints_offset |-> 1,
               alphabet |-> <<"a", "b">>, add_trailing_space |-> "auto",
               nmatches |-> 0, input_ok |-> TRUE, type |-> "line"]
    /\ text = <<>>
    /\ all_marks = <<>>
    /\ index_map = <<>>
    /\ current_input = <<>>
    /\ current_text = None
    /\ chosen = <<>>
    /\ ignore_mark_indices = {}
    /\ return_code = 0
    /\ screen = <<>>
    /\ event = NoEvent
    /\ outcome = "none"
    /\ result_match = <<>>
    /\ exit_status = -1
    /\ message = ""
    /\ codec = CodecIdle

RECURSIVE Concat(_)
Concat(ss) == IF ss = <<>> THEN <<>> ELSE Head(ss) \o Concat(Tail(ss))

\* pieces of screen text the refiners react to
RefFragments ==
    {<<"l", "i", "n", "k", ":">>, <<"(">>, <<")">>, <<"[">>, <<".">>,
     <<"BACKTICK", "_">>, <<"a">>, <<"DQUOTE">>}

RefTexts ==
    {Concat(fs) : fs \in UNION {[1..n -> RefFragments] : n \in 1..MaxFrags}}

\* the chains functions_for composes, and each refiner on its own
RefinerChains ==
    {<<"url">>, <<"brackets">>, <<"quotes">>, <<"brackets", "quotes">>}

RefinerInit ==
    /\ HintsOff
    /\ \E t \in RefTexts : \E s \in 0..(Len(t) - 1) : \E e \in (s + 1)..Len(t) :
          unit = [pc |-> "start", text |-> t, s |-> s, e |-> e,
                  chain |-> <<>>, rs |-> s, re |-> e]

Refine(chain) ==
    /\ unit.pc = "start"
    /\ LET r == ApplyChain(chain, unit.text, unit.s, unit.e)
       IN unit' = [unit EXCEPT !.pc = "done", !.chain = chain,
                               !.rs = r[1], !.re = r[2]]
    /\ UNCHANGED <<hintsVars, codec>>

RefinerNext == \E chain \in RefinerChains : Refine(chain)

RefinerSpec == RefinerInit /\ [][RefinerNext]_vars

ExtTexts == UNION {[1..n -> {"a", "NUL"}] : n \in 1..MaxExtLen}

MinLengths == 1..3

\* what finditer can match in a text of length n: one or two spans, the
\* second starting no earlier than the first ends
ScanResults(n) ==
    LET Span == {sp \in (0..n) \X (0..n) : sp[1] <= sp[2]}
    IN {<<a>> : a \in Span}
       \cup {pr \in Span \X Span : pr[1][2] <= pr[2][1] /\ pr[1] # pr[2]}

ExtractInit ==
    /\ HintsOff
    /\ \E t \in ExtTexts : \E sps \in ScanResults(Len(t)) : \E m \in MinLengths :
          unit = [pc |-> "start", text |-> t, spans |-> sps, min |-> m,
                  out |-> <<>>]

Extract ==
    /\ unit.pc = "start"
    /\ unit' = [unit EXCEPT !.pc = "done",
                            !.out = regex_finditer(unit.spans, unit.min,
                                                   unit.text)]
    /\ UNCHANGED <<hintsVars, codec>>

ExtractNext == Extract

ExtractSpec == ExtractInit /\ [][ExtractNext]_vars

RenderTexts ==
    {<<"u", "v", "w", "x", "y">>, <<"u", "v", "NUL", "LF", "w">>}

RenderInputs == {<<>>, <<"a">>, <<"b">>, <<"b", "a">>}

\* lists of 1..MaxRMarks disjoint spans of a text of length n, by start
SpanLists(n) ==
    LET Span == {sp \in (0..n) \X (0..n) : sp[1] < sp[2]}
    IN {sl \in UNION {[1..k -> Span] : k \in 1..MaxRMarks} :
            \A i \in 1..(Len(sl) - 1) : sl[i][2] <= sl[i + 1][1]}

\* the marks run() hands to the renderer for the spans sl
UnitMarks(t, sl, offset, ascending) ==
    [j \in 1..Len(sl) |->
        [index |-> FinalIndex([index |-> j - 1], Len(sl) - 1, offset, ascending),
         start |-> sl[j][1], end |-> sl[j][2],
         text |-> MarkText(t, sl[j][1], sl[j][2]), groupdict |-> <<>>]]

RenderInit ==
    /\ HintsOff
    /\ \E t \in RenderTexts : \E sl \in SpanLists(Len(t)) :
       \E o \in {0, 1} : \E asc \in BOOLEAN : \E ci \in RenderInputs :
          LET ms == UnitMarks(t, sl, o, asc)
          IN \E ign \in SUBSET {ms[j].index : j \in 1..Len(ms)} :
                unit = [pc |-> "start", text |-> t, marks |-> ms,
                        cur_input |-> ci, ignored |-> ign, out |-> <<>>]

RenderUnit ==
    /\ unit.pc = "start"
    /\ unit' = [unit EXCEPT !.pc = "done",
                            !.out = render(unit.text, unit.cur_input,
                                           unit.marks, unit.ignored,
                                           <<"a", "b">>)]
    /\ UNCHANGED <<hintsVars, codec>>

RenderNext == RenderUnit

RenderSpec == RenderInit /\ [][RenderNext]_vars

\* the Mark objects mark() yields when pat.finditer(text) matches spans
mark(spans, post_processors, t, minimum_match_length) ==
    LET found == regex_finditer(spans, minimum_match_length, t)
    IN [i \in 1..Len(found) |->
          LET r == ApplyChain(post_processors, t, found[i][1], found[i][2])
          IN [index |-> i - 1, start |-> r[1], end |-> r[2],
              text |-> MarkText(t, r[1], r[2]), groupdict |-> <<>>]]

\* the refiner chains functions_for gives the built-in match types
BuiltinChains == {<<"url">>, <<"brackets", "quotes">>, <<>>}

MarkTexts ==
    UNION {[1..n -> {"(", ")", "a", "DQUOTE"}] : n \in 1..MaxMarkLen}

MarkInit ==
    /\ HintsOff
    /\ \E t \in MarkTexts : \E sps \in ScanResults(Len(t)) :
       \E m \in MinLengths : \E chain \in BuiltinChains :
          unit = [pc |-> "start", text |-> t, spans |-> sps, min |-> m,
                  chain |-> chain, out |-> <<>>]

MarkAll ==
    /\ unit.pc = "start"
    /\ unit' = [unit EXCEPT !.pc = "done",
                            !.out = mark(unit.spans, unit.chain, unit.text,
                                         unit.min)]
    /\ UNCHANGED <<hintsVars, codec>>

MarkNext == MarkAll

MarkSpec == MarkInit /\ [][MarkNext]_vars

----------------------------------------------------------------------------
(* Properties of the selection loop *)

\* indices of the still-live matches whose label starts with inp
Live(inp, ignored) ==
    {idx \in DOMAIN index_map :
        /\ StartsWith(encode_hint(idx, args.alphabet), inp)
        /\ idx \notin ignored}

HasDuplicates(s) == \E i, j \in 1..Len(s) : i # j /\ s[i] = s[j]

Cancelled ==
    \/ event.kind \in {"interrupt", "eot"}
    \/ event.kind = "escape" /\ ~args.multiple

\* C1: whenever a character input makes currentInput a prefix of the label
\* of exactly one still-live match, that same event resolves the match
\* (appends it to chosen).
C1_AutoResolveUniqueLive ==
    [][(pc = "loop" /\ event'.kind = "text")
        => LET typed == Accepted(event'.text, args.alphabet)
               inp == current_input \o typed
               live == Live(inp, ignore_mark_indices)
           IN (typed # <<>> /\ Cardinality(live) = 1)
                => chosen' = Append(chosen,
                                    index_map[CHOOSE idx \in live : TRUE])]_vars

\* C2: in multi-select mode no match is resolved twice, so chosen never holds
\* the same match at two positions.
C2_NoMatchChosenTwice ==
    args.multiple => ~HasDuplicates(chosen)

\* C3: in single-select mode the first event that resolves a match is a
\* character input or Enter, it ends the loop with return code 0 and chosen
\* then holds exactly that match; in multi-select mode character input,
\* Backspace, Enter and Resize never end the loop, only Escape, interrupt and
\* end-of-input do.
C3_TerminationPolicy ==
    [][/\ (pc = "loop" /\ ~args.multiple) => chosen = <<>>
       /\ (pc = "loop" /\ ~args.multiple /\ chosen' # chosen)
            => /\ event'.kind \in {"text", "enter"}
               /\ pc' = "quit"
               /\ return_code' = 0
               /\ Len(chosen') = 1
       /\ (pc = "loop" /\ args.multiple
             /\ event'.kind \in {"text", "backspace", "enter", "resize"})
            => pc' = "loop"
       /\ (pc = "loop" /\ args.multiple /\ pc' # "loop")
            => event'.kind \in {"escape", "interrupt", "eot"}]_vars

C3_Witness ==
    /\ ~args.multiple
    /\ pc = "quit"
    /\ event.kind = "text"
    /\ Len(chosen) = 1
    /\ return_code = 0
    /\ Len(all_marks) = 3

\* C4: in multi-select mode Escape ends the loop with return code 0 and
\* leaves chosen alone; chosen only ever grows by appending one match at its
\* end; and when some match was resolved the caller receives exactly the
\* texts of chosen, in that order.
C4_EscapeKeepsSelections ==
    [][/\ (pc = "loop" /\ args.multiple /\ event'.kind = "escape")
            => (pc' = "quit" /\ return_code' = 0 /\ chosen' = chosen)
       /\ pc = "loop"
            => \/ chosen' = chosen
               \/ \E j \in 1..Len(all_marks) :
                    chosen' = Append(chosen, all_marks[j])
       /\ (pc = "quit" /\ args.multiple /\ event.kind = "escape"
             /\ chosen # <<>>)
            => /\ outcome' = "result"
               /\ exit_status' = 0
               /\ Len(result_match') = Len(chosen)
               /\ \A i \in 1..Len(chosen) :
                    result_match'[i] = chosen[i].text \o get_match_suffix(args)]_vars

C4_Witness ==
    /\ args.multiple
    /\ pc = "done"
    /\ event.kind = "escape"
    /\ Len(all_marks) = 3
    /\ Len(chosen) = 2
    /\ chosen[1].start > chosen[2].start
    /\ outcome = "result"
    /\ Len(result_match) = 2

\* C5: after an interrupt or end-of-input in either mode, or Escape in
\* single-select mode, the loop's return code is 1 and the caller gets no
\* result: the process exits with status 1 whatever chosen holds.
C5_CancellationGivesNoResult ==
    (pc \in {"quit", "done"} /\ Cancelled)
        => /\ return_code = 1
           /\ pc = "done"
                => (outcome = "exit" /\ exit_status = 1 /\ result_match = <<>>)

C5_Witness ==
    /\ pc = "done"
    /\ args.multiple
    /\ event.kind = "interrupt"
    /\ Len(chosen) >= 2
    /\ outcome = "exit"

\* C6: Enter with a non-empty currentInput that decodes to no match's index
\* leaves chosen and ignoredIndices alone, empties currentInput, redraws the
\* screen for the emptied input and keeps the loop running; Enter with an
\* empty currentInput changes nothing.
C6_EnterRecoversLocally ==
    [][(pc = "loop" /\ event'.kind = "enter")
        => /\ current_input = <<>>
                => UNCHANGED <<pc, current_input, current_text, chosen,
                               ignore_mark_indices, return_code, screen,
                               outcome, result_match, exit_status>>
           /\ (current_input # <<>>
                 /\ decode_hint(current_input, args.alphabet)
                        \notin DOMAIN index_map)
                => /\ chosen' = chosen
                   /\ ignore_mark_indices' = ignore_mark_indices
                   /\ current_input' = <<>>
                   /\ pc' = "loop"
                   /\ screen' = render(text, <<>>, all_marks,
                                       ignore_mark_indices, args.alphabet)]_vars

C6_Witness ==
    /\ pc = "loop"
    /\ event.kind = "enter"
    /\ current_input = <<>>
    /\ args.hints_offset = 1
    /\ ~args.multiple
    /\ chosen = <<>>

\* C7: when no match was extracted the loop is never entered and nothing is
\* rendered; the user gets the informational prompt and the process ends
\* with status 0 and no result.
C7_NoMatchesSkipsLoop ==
    (pc # "start" /\ args.input_ok /\ args.nmatches = 0)
        => /\ pc = "done"
           /\ outcome = "return"
           /\ exit_status = 0
           /\ result_match = <<>>
           /\ message = "No matches found, press Enter to quit."
           /\ current_text = None
           /\ screen = <<>>
           /\ event = NoEvent

C7_Witness ==
    /\ pc = "done"
    /\ args.input_ok
    /\ args.nmatches = 0
    /\ all_marks = <<>>
    /\ outcome = "return"

NoCandidates == args.input_ok /\ args.nmatches = 0

\* C8 as stated: status 1 when the selection is cancelled and when no
\* candidates were found, status 0 only on success.
C8_ExitCodesAsStated ==
    pc = "done"
        => /\ (Cancelled \/ NoCandidates) => exit_status = 1
           /\ exit_status = 0
                => (chosen # <<>> \/ (args.multiple /\ event.kind = "escape"))

\* C8 as amended: the process exits with status 1 exactly when the selection
\* was cancelled or start-up failed, and with status 0 otherwise, that is on
\* success and also when no candidates were found.
C8_ExitCodes ==
    pc = "done"
        => /\ exit_status \in {0, 1}
           /\ exit_status = 1
                <=> ((args.input_ok /\ ~NoCandidates /\ Cancelled)
                       \/ ~args.input_ok)
           /\ NoCandidates => exit_status = 0

C8_Witness ==
    /\ pc = "done"
    /\ event.kind = "eot"
    /\ exit_status = 1
    /\ chosen # <<>>

\* C11: with k matches and offset o (negative o clamped to 0) the j-th match
\* in document order has final index j + o when numbering ascends and
\* (k-1) - j + o when it descends (j counted from 0); the indices are
\* pairwise distinct, the index map has k entries and no two matches share
\* a label.
C11_IndexAssignment ==
    pc = "loop"
        => LET k == Len(all_marks)
               o == IF args.hints_offset < 0 THEN 0 ELSE args.hints_offset
           IN /\ k = args.nmatches
              /\ \A j \in 1..k :
                    /\ all_marks[j].index =
                         IF args.ascending THEN (j - 1) + o
                         ELSE (k - 1) - (j - 1) + o
                    /\ all_marks[j].index \in DOMAIN index_map
                    /\ index_map[all_marks[j].index] = all_marks[j]
              /\ \A i, j \in 1..k :
                    i < j => /\ all_marks[i].start < all_marks[j].start
                             /\ all_marks[i].index # all_marks[j].index
                             /\ encode_hint(all_marks[i].index, args.alphabet)
                                  # encode_hint(all_marks[j].index, args.alphabet)
              /\ Cardinality(DOMAIN index_map) = k

C11_Witness ==
    /\ pc = "loop"
    /\ ~args.ascending
    /\ args.hints_offset = 1
    /\ Len(all_marks) = 3
    /\ all_marks[1].index = 3
    /\ all_marks[3].index = 1

CacheIsCurrent ==
    current_text = render(text, current_input, all_marks, ignore_mark_indices,
                          args.alphabet)

\* C16 as stated: in every reachable state the render cache is empty or
\* equal to the render of the current currentInput and ignoredIndices.
C16_CacheAsStated ==
    current_text = None \/ CacheIsCurrent

\* C16 as amended: in every state in which the loop waits for an event the
\* cache holds the render of the current currentInput and ignoredIndices
\* and the screen shows exactly that text; only the single-select
\* resolution that ends the loop leaves the cache behind, and no draw
\* follows it.
C16_CacheWhileRunning ==
    /\ pc = "loop" => (current_text # None /\ CacheIsCurrent
                       /\ screen = current_text)
    /\ (pc \in {"quit", "done"} /\ current_text # None /\ ~CacheIsCurrent)
            => (~args.multiple /\ chosen # <<>> /\ return_code = 0)

C16_Witness ==
    /\ pc = "loop"
    /\ args.multiple
    /\ event.kind = "resize"
    /\ ignore_mark_indices # {}
    /\ current_input # <<>>

\* C19: Resize and a text event without alphabet characters leave
\* currentInput, chosen and ignoredIndices alone and keep the loop running;
\* Backspace removes exactly the last character of currentInput (nothing
\* when it is empty), leaves chosen and ignoredIndices alone and keeps the
\* loop running.
C19_FrameConditions ==
    [][pc = "loop"
        => /\ (\/ event'.kind = "resize"
               \/ /\ event'.kind = "text"
                  /\ Range(event'.text) \cap Range(args.alphabet) = {})
                => /\ UNCHANGED <<current_input, chosen, ignore_mark_indices>>
                   /\ pc' = "loop"
           /\ event'.kind = "backspace"
                => /\ current_input = <<>> => current_input' = <<>>
                   /\ current_input # <<>>
                        => (/\ Len(current_input') = Len(current_input) - 1
                            /\ StartsWith(current_input, current_input'))
                   /\ UNCHANGED <<chosen, ignore_mark_indices>>
                   /\ pc' = "loop"]_vars

C19_Witness ==
    /\ pc = "loop"
    /\ args.multiple
    /\ event.kind = "backspace"
    /\ chosen # <<>>
    /\ Len(current_input) = 1

\* C20: whenever a character input or Enter appends a match to chosen, the
\* input typed at that moment is a prefix of the match's label, and for
\* Enter it is the label itself.
C20_ResolvedOnlyByItsLabel ==
    [][(pc = "loop" /\ Len(chosen') = Len(chosen) + 1)
        => LET M == chosen'[Len(chosen')]
               label == encode_hint(M.index, args.alphabet)
               inp == IF event'.kind = "text"
                      THEN current_input \o Accepted(event'.text, args.alphabet)
                      ELSE current_input
           IN /\ StartsWith(label, inp)
              /\ event'.kind = "enter" => inp = label]_vars

\* the state on_text leaves when it is handed the single character c
OneAtATime(st, c) ==
    IF st.quit \/ c \notin Range(args.alphabet) THEN st
    ELSE LET inp == st.input \o <<c>>
             matches == PrefixMatches(inp)
             m == index_map[CHOOSE idx \in matches : TRUE]
         IN IF Cardinality(matches) # 1 THEN [st EXCEPT !.input = inp]
            ELSE IF args.multiple
            THEN [st EXCEPT !.input = <<>>,
                            !.chosen = Append(st.chosen, m),
                            !.ignored = st.ignored \cup {m.index}]
            ELSE [st EXCEPT !.input = inp,
                            !.chosen = Append(st.chosen, m),
                            !.quit = TRUE]

RECURSIVE Deliver(_, _)
Deliver(st, t) ==
    IF t = <<>> THEN st ELSE Deliver(OneAtATime(st, Head(t)), Tail(t))

\* C22: a text event carrying several characters leaves currentInput,
\* chosen, ignoredIndices and the termination of the loop as delivering its
\* characters one at a time as separate events would.
C22_BatchEqualsOneAtATime ==
    [][(pc = "loop" /\ event'.kind = "text")
        => LET st == Deliver([input |-> current_input, chosen |-> chosen,
                              ignored |-> ignore_mark_indices, quit |-> FALSE],
                             event'.text)
           IN /\ current_input' = st.input
              /\ chosen' = st.chosen
              /\ ignore_mark_indices' = st.ignored
              /\ (pc' = "quit") = st.quit]_vars

----------------------------------------------------------------------------
(* Properties of the refiners and the extractor *)

\* C12: a refiner or refiner chain applied to a span with
\* 0 <= start < end <= len(text) returns a span with
\* 0 <= start' < end' <= len(text).
C12_RefinedSpanValid ==
    unit.pc = "done"
        => (0 <= unit.rs /\ unit.rs < unit.re /\ unit.re <= Len(unit.text))

\* C13: a refiner only narrows the span: start <= start' and end' <= end.
C13_RefinersOnlyNarrow ==
    unit.pc = "done" => (unit.s <= unit.rs /\ unit.re <= unit.e)

\* the end of span (s, e) once its trailing filler is dropped, the first
\* character always being kept
TrimmedEnd(t, s, e) ==
    IF e <= s THEN e
    ELSE CHOOSE x \in (s + 1)..e :
            /\ \A i \in x..(e - 1) : t[i + 1] = "NUL"
            /\ x > s + 1 => t[x] # "NUL"

\* C14 as stated: a pattern match whose untrimmed span has at least
\* minimum-match-length characters is yielded, with at least that many
\* characters left.
C14_TrimKeepsMinimumAsStated ==
    unit.pc = "done"
        => \A i \in 1..Len(unit.spans) :
              unit.spans[i][2] - unit.spans[i][1] >= unit.min
                => \E k \in 1..Len(unit.out) :
                      /\ unit.out[k][1] = unit.spans[i][1]
                      /\ unit.out[k][2] - unit.out[k][1] >= unit.min
                      /\ unit.out[k][2] <= unit.spans[i][2]

\* C14 as amended: trimming drops all trailing filler of a span but never
\* its first character, and the matches yielded are exactly those whose
\* trimmed span has at least minimum-match-length characters, in scan order.
C14_TrimThenFilter ==
    unit.pc = "done"
        => LET Trimmed(sp) == <<sp[1], TrimmedEnd(unit.text, sp[1], sp[2])>>
               Keeps(sp) == Trimmed(sp)[2] - sp[1] >= unit.min
               kept == SelectSeq(unit.spans, Keeps)
           IN /\ Len(unit.out) = Len(kept)
              /\ \A k \in 1..Len(kept) : unit.out[k] = Trimmed(kept[k])

C14_Witness ==
    /\ unit.pc = "done"
    /\ unit.min = 3
    /\ unit.spans = <<<<0, 4>>>>
    /\ unit.text = <<"a", "a", "NUL", "NUL">>
    /\ unit.out = <<>>

\* C21: the marks produced by the extractor and a built-in refiner chain
\* have pairwise disjoint spans in strictly increasing start order: for an
\* earlier and a later mark, end of the earlier <= start of the later.
C21_MarksDisjointAndOrdered ==
    unit.pc = "done"
        => \A i, j \in 1..Len(unit.out) :
              i < j => /\ unit.out[i].start < unit.out[j].start
                       /\ unit.out[i].end <= unit.out[j].start

----------------------------------------------------------------------------
(* Properties of the overlay renderer *)

Tags == {"<faint>", "</faint>", "<hint>", "</hint>", "<text>", "</text>"}

VisibleWidth(x) ==
    LET Visible(c) == c \notin Tags
    IN Len(SelectSeq(x, Visible))

UnitLabel(m) == encode_hint(m.index, <<"a", "b">>)

UnitSlice(m) == PySlice(unit.text, m.start, m.end)

\* C15: for every non-ignored match whose label starts with currentInput
\* the replacement is no wider than the original match text.
C15_OverlayNoWider ==
    unit.pc = "done"
        => \A j \in 1..Len(unit.marks) :
              LET m == unit.marks[j]
              IN (m.index \notin unit.ignored
                    /\ StartsWith(UnitLabel(m), unit.cur_input))
                   => VisibleWidth(highlight_mark(m, UnitSlice(m),
                                                  unit.cur_input, <<"a", "b">>))
                        <= Len(UnitSlice(m))

\* every span replaced at once at its original offsets, left to right
RECURSIVE Assemble(_, _, _, _, _)
Assemble(t, marks, pieces, j, pos) ==
    IF j > Len(marks) THEN PyFrom(t, pos)
    ELSE PySlice(t, pos, marks[j].start) \o pieces[j]
         \o Assemble(t, marks, pieces, j + 1, marks[j].end)

\* what render does to the text after the splicing
Finish(x) ==
    RStrip(Replace(Replace(x, "NUL", <<>>), "LF", <<"CR", "LF">>))

\* C17: splicing from the last match to the first gives the text obtained by
\* replacing every non-ignored span at once at its original offsets.
C17_ReverseSplicingOffsetSafe ==
    unit.pc = "done"
        => LET pieces ==
                 [j \in 1..Len(unit.marks) |->
                    IF unit.marks[j].index \in unit.ignored
                    THEN UnitSlice(unit.marks[j])
                    ELSE highlight_mark(unit.marks[j], UnitSlice(unit.marks[j]),
                                        unit.cur_input, <<"a", "b">>)]
           IN unit.out = Finish(Assemble(unit.text, unit.marks, pieces, 1, 0))

C17_Witness ==
    /\ unit.pc = "done"
    /\ Len(unit.marks) = 3
    /\ unit.ignored = {}
    /\ unit.marks[1].end = unit.marks[2].start
    /\ unit.marks[2].end - unit.marks[2].start = 1
    /\ unit.cur_input = <<"b">>

\* how a match is shown: ignored, faint, or badge followed by the kept text
Shown(m, badge) ==
    IF m.index \in unit.ignored THEN UnitSlice(m)
    ELSE IF unit.cur_input # <<>> /\ ~StartsWith(UnitLabel(m), unit.cur_input)
    THEN <<"<faint>">> \o UnitSlice(m) \o <<"</faint>">>
    ELSE <<"<hint>">> \o badge \o <<"</hint>", "<text>">>
         \o PyFrom(UnitSlice(m), Len(badge)) \o <<"</text>">>

\* C18 as stated: an ignored match keeps its text without badge, a
\* non-ignored match whose label does not start with a non-empty
\* currentInput is shown faint, and every other match carries a badge equal
\* to its label with the typed prefix removed.
C18_ThreeWaysAsStated ==
    unit.pc = "done"
        => LET pieces ==
                 [j \in 1..Len(unit.marks) |->
                    Shown(unit.marks[j],
                          PyFrom(UnitLabel(unit.marks[j]), Len(unit.cur_input)))]
           IN unit.out = Finish(Assemble(unit.text, unit.marks, pieces, 1, 0))

\* C18 as amended: as stated, except that a match whose whole label has been
\* typed carries a badge of one space.
C18_ThreeWays ==
    unit.pc = "done"
        => LET Badge(m) ==
                 IF UnitLabel(m) = unit.cur_input THEN <<" ">>
                 ELSE PyFrom(UnitLabel(m), Len(unit.cur_input))
               pieces ==
                 [j \in 1..Len(unit.marks) |->
                    Shown(unit.marks[j], Badge(unit.marks[j]))]
           IN /\ unit.out = Finish(Assemble(unit.text, unit.marks, pieces, 1, 0))
              /\ unit.cur_input = <<>>
                   => \A j \in 1..Len(unit.marks) :
                         Badge(unit.marks[j]) = UnitLabel(unit.marks[j])

C18_Witness ==
    /\ unit.pc = "done"
    /\ Len(unit.marks) = 3
    /\ unit.cur_input = <<"b">>
    /\ {unit.marks[j].index : j \in 1..3} = {0, 1, 2}
    /\ unit.ignored = {2}

----------------------------------------------------------------------------
(* Properties of the hint codec *)

RECURSIVE Pow(_, _)
Pow(b, n) == IF n = 0 THEN 1 ELSE b * Pow(b, n - 1)

\* position (0-based) of the first occurrence of c in the alphabet
DigitOf(alphabet, c) ==
    CHOOSE d \in 0..(Len(alphabet) - 1) : alphabet[d + 1] = c

RECURSIVE PositionalSum(_, _, _)
PositionalSum(h, alphabet, k) ==
    IF k > Len(h) THEN 0
    ELSE DigitOf(alphabet, h[k]) * Pow(Len(alphabet), Len(h) - k)
         + PositionalSum(h, alphabet, k + 1)

\* C9: decoding the label that encode_hint produced for an index gives the
\* index back.
C9_RoundTrip ==
    codec.pc = "decoded" => codec.decoded = codec.num

C9_Witness ==
    /\ codec.pc = "decoded"
    /\ codec.num > Len(codec.alphabet)
    /\ Len(codec.hint) >= 3
    /\ codec.decoded = codec.num

\* C10: the label is the most-significant-first representation of the index
\* in base len(alphabet): it is not empty, its digits weighted by their
\* place values sum to the index, it has no leading zero digit unless it is
\* the single digit of index 0, and with alphabet "ab" the indices 0, 1, 2
\* give "a", "b", "ba".
C10_PositionalEncoding ==
    codec.pc \in {"encoded", "decoded"}
        => LET h == codec.hint
               a == codec.alphabet
           IN /\ Len(h) >= 1
              /\ Range(h) \subseteq Range(a)
              /\ PositionalSum(h, a, 1) = codec.num
              /\ Len(h) > 1 => h[1] # a[1]
              /\ codec.num = 0 => h = <<a[1]>>
              /\ (a = <<"a", "b">> /\ codec.num = 0) => h = <<"a">>
              /\ (a = <<"a", "b">> /\ codec.num = 1) => h = <<"b">>
              /\ (a = <<"a", "b">> /\ codec.num = 2) => h = <<"b", "a">>

C10_Witness ==
    /\ codec.pc = "encoded"
    /\ codec.num = 0
    /\ codec.alphabet = <<"b", "a">>
    /\ codec.hint = <<"b">>

====
